---- MODULE Spec2Model ----
(***************************************************************************)
(* Model of the Pollinations MCP adapter (src/src/index.ts): the static    *)
(* tool catalog, the list_tools handler and the call_tool handler with its *)
(* three cases and its single catch block.                                 *)
(*                                                                         *)
(* Representation.                                                         *)
(*  - A JavaScript value is a record of one fixed shape (JsVal below): its *)
(*    tag t is the typeof-like kind, the other fields carry the payload.   *)
(*    A number is n + f/10 (f is one decimal digit), which is enough for   *)
(*    1024, 0 and 0.7.                                                     *)
(*  - A JavaScript string is a sequence of segments; a segment is either a *)
(*    run of URL-unreserved characters ("cat", "flux-3d") or one special   *)
(*    character (" ", "&", a lone surrogate).  The encoders work segment   *)
(*    by segment.  Text computed by the program (a URL, an error message)  *)
(*    is a TLA+ string, carried in a value as one segment.                 *)
(*  - A JSON text is represented by the ordered key/value pairs that       *)
(*    JSON.stringify writes (it omits keys whose value is undefined).      *)
(***************************************************************************)
EXTENDS Integers, Sequences, FiniteSets, TLC

VARIABLES
  tools,      \* the catalog array (module-level `tools`)
  listed,     \* the last list_tools response, or <<>> when none was sent yet
  pc,         \* per in-flight slot: position of the call_tool handler
  request,    \* per slot: request.params of the running invocation
  locals,     \* per slot: the handler's local bindings captured across awaits
  sent,       \* per slot: outbound requests issued by the running invocation
  remote,     \* per slot: what the remote did with this invocation's request
  outcome     \* per slot: how the handler's promise settled

vars == <<tools, listed, pc, request, locals, sent, remote, outcome>>

-----------------------------------------------------------------------------
(* Bounds *)

\* number of call_tool invocations that can be in flight at once (SpecConc)
MaxInFlight == 2

-----------------------------------------------------------------------------
(* JavaScript values *)

JsVal(t, n, f, s, b, a) == [t |-> t, n |-> n, f |-> f, s |-> s, b |-> b, a |-> a]

Undef == JsVal("undefined", 0, 0, <<>>, FALSE, <<>>)
Null == JsVal("null", 0, 0, <<>>, FALSE, <<>>)
Num(n) == JsVal("number", n, 0, <<>>, FALSE, <<>>)
Dec(n, f) == JsVal("number", n, f, <<>>, FALSE, <<>>)
Bool(b) == JsVal("boolean", 0, 0, <<>>, b, <<>>)
Str(s) == JsVal("string", 0, 0, s, FALSE, <<>>)
Text(x) == JsVal("string", 0, 0, <<x>>, FALSE, <<>>)
Arr(a) == JsVal("array", 0, 0, <<>>, FALSE, a)

\* a string with an unpaired UTF-16 surrogate
LoneSurrogate == "\\uD800"

RECURSIVE Cat(_)
\* the characters of a string, verbatim
Cat(s) == IF s = <<>> THEN "" ELSE Head(s) \o Cat(Tail(s))

\* `v === undefined` in place of `!v`
IsUndefined(v) == v.t = "undefined"

\* ToBoolean(v) is false
Falsy(v) ==
  \/ v.t \in {"undefined", "null"}
  \/ v.t = "string" /\ Cat(v.s) = ""
  \/ v.t = "number" /\ v.n = 0 /\ v.f = 0
  \/ v.t = "boolean" /\ ~v.b

\* `if (v)` in place of `if (v !== undefined)`
IsTruthy(v) ==
  ~(\/ v.t \in {"undefined", "null"}
    \/ v.t = "string" /\ v.s = <<>>
    \/ v.t = "number" /\ v.n = 0 /\ v.f = 0
    \/ v.t = "boolean" /\ ~v.b)

\* v !== undefined
IsDefined(v) == v.t # "undefined"

\* `v || d` in place of the destructuring default
DefaultOr(v, d) ==
  IF \/ v.t \in {"undefined", "null"}
     \/ v.t = "string" /\ v.s = <<>>
     \/ v.t = "number" /\ v.n = 0 /\ v.f = 0
     \/ v.t = "boolean" /\ ~v.b
  THEN d ELSE v

\* a destructuring default `x = d`: d replaces undefined and nothing else
Default(v, d) == IF v.t = "undefined" THEN d ELSE v

Digit(d) == CASE d = 0 -> "0" [] d = 1 -> "1" [] d = 2 -> "2" [] d = 3 -> "3"
              [] d = 4 -> "4" [] d = 5 -> "5" [] d = 6 -> "6" [] d = 7 -> "7"
              [] d = 8 -> "8" [] d = 9 -> "9"

RECURSIVE Digits(_)
Digits(n) == IF n < 10 THEN Digit(n) ELSE Digits(n \div 10) \o Digit(n % 10)

\* Number.prototype.toString for n + f/10 >= 0
NumberToString(v) == Digits(v.n) \o (IF v.f = 0 THEN "" ELSE "." \o Digit(v.f))

\* String(v), as URLSearchParams applies it to a record's values
ToStringSegs(v) ==
  CASE v.t = "string" -> v.s
    [] v.t = "number" -> <<NumberToString(v)>>
    [] v.t = "boolean" -> <<IF v.b THEN "true" ELSE "false">>
    [] v.t = "null" -> <<"null">>
    [] OTHER -> <<"undefined">>

-----------------------------------------------------------------------------
(* Faults: values that are thrown *)

\* isError: `instanceof Error`; message: the description the value carries
Fault(isError, message) == [isError |-> isError, message |-> message]
NoFault == Fault(FALSE, "")
NewError(message) == Fault(TRUE, message)

\* what a call returns or throws
Returns(v) == [threw |-> FALSE, fault |-> NoFault, value |-> v]
Throws(fault) == [threw |-> TRUE, fault |-> fault, value |-> ""]

\* v.toString(): a TypeError on null and undefined
MethodToString(v) ==
  IF v.t \in {"null", "undefined"}
  THEN Throws(NewError("Cannot read properties of " \o v.t \o " (reading 'toString')"))
  ELSE Returns(ToStringSegs(v))

-----------------------------------------------------------------------------
(* Endpoints and catalog *)

POLLINATIONS_IMAGE_API == "https://image.pollinations.ai/prompt"
POLLINATIONS_TEXT_API == "https://text.pollinations.ai"

DefaultWidth == 1024
DefaultHeight == 1024
\* the default temperature 0.7 is 0 + DefaultTemperatureTenths/10
DefaultTemperatureTenths == 7
TemperatureMinimum == 0
TemperatureMaximum == 2

ImageModelEnum == <<"flux", "flux-realism", "flux-anime", "flux-3d", "turbo">>
TextModelEnum == <<"openai", "mistral", "mistral-large", "claude-3.5-sonnet",
                   "llama-3.3-70b", "qwen-2.5-coder-32b", "searchgpt">>

\* one property of an inputSchema; default, minimum, maximum are Undef and
\* enum is <<>> where the schema has none
Prop(name, type, default, enum, minimum, maximum) ==
  [name |-> name, type |-> type, default |-> default, enum |-> enum,
   minimum |-> minimum, maximum |-> maximum]

Tool(name, properties, required) ==
  [name |-> name, properties |-> properties, required |-> required]

GenerateImageTool ==
  Tool("generate_image",
       << Prop("prompt", "string", Undef, <<>>, Undef, Undef),
          Prop("width", "number", Num(DefaultWidth), <<>>, Undef, Undef),
          Prop("height", "number", Num(DefaultHeight), <<>>, Undef, Undef),
          Prop("seed", "number", Undef, <<>>, Undef, Undef),
          Prop("model", "string", Text("flux"), ImageModelEnum, Undef, Undef),
          Prop("nologo", "boolean", Bool(TRUE), <<>>, Undef, Undef),
          Prop("enhance", "boolean", Bool(FALSE), <<>>, Undef, Undef) >>,
       <<"prompt">>)

GenerateTextTool ==
  Tool("generate_text",
       << Prop("prompt", "string", Undef, <<>>, Undef, Undef),
          Prop("model", "string", Text("openai"), TextModelEnum, Undef, Undef),
          Prop("seed", "number", Undef, <<>>, Undef, Undef),
          Prop("temperature", "number", Dec(0, DefaultTemperatureTenths), <<>>,
               Num(TemperatureMinimum), Num(TemperatureMaximum)),
          Prop("max_tokens", "number", Undef, <<>>, Undef, Undef),
          Prop("system", "string", Undef, <<>>, Undef, Undef) >>,
       <<"prompt">>)

GetAvailableModelsTool == Tool("get_available_models", <<>>, <<>>)

\* the array literal assigned to `tools`
ToolsLiteral == <<GenerateImageTool, GenerateTextTool, GetAvailableModelsTool>>

\* a handler that drops the last descriptor
ListToolsTruncated(catalog) == SubSeq(catalog, 1, Len(catalog) - 1)

\* the list_tools handler's return value { tools }
ListToolsResult(catalog) == catalog

-----------------------------------------------------------------------------
(* Encoders *)

\* encodeURIComponent on one segment
EncodeSegment(seg) ==
  CASE seg = " " -> "%20"
    [] seg = "&" -> "%26"
    [] OTHER -> seg

RECURSIVE EncodeSegments(_)
EncodeSegments(s) ==
  IF s = <<>> THEN "" ELSE EncodeSegment(Head(s)) \o EncodeSegments(Tail(s))

\* encodeURIComponent(v): URIError on an unpaired surrogate
encodeURIComponent(v) ==
  LET s == ToStringSegs(v)
  IN IF \E k \in 1..Len(s) : s[k] = LoneSurrogate
     THEN Throws(NewError("URI malformed"))
     ELSE Returns(EncodeSegments(s))

\* application/x-www-form-urlencoded serialisation of one segment; an unpaired
\* surrogate was replaced by U+FFFD when the value became a USVString
FormEncodeSegment(seg) ==
  CASE seg = " " -> "+"
    [] seg = "&" -> "%26"
    [] seg = LoneSurrogate -> "%EF%BF%BD"
    [] OTHER -> seg

RECURSIVE FormEncode(_)
FormEncode(s) ==
  IF s = <<>> THEN "" ELSE FormEncodeSegment(Head(s)) \o FormEncode(Tail(s))

RECURSIVE URLSearchParamsToString(_)
\* params.toString(): name=value pairs in insertion order, joined by "&"
URLSearchParamsToString(params) ==
  IF params = <<>> THEN ""
  ELSE FormEncode(<<Head(params)[1]>>) \o "=" \o FormEncode(Head(params)[2])
       \o (IF Tail(params) = <<>> THEN "" ELSE "&" \o URLSearchParamsToString(Tail(params)))

\* JSON.stringify of an object given as ordered key/value pairs: a key whose
\* value is undefined is omitted
JSONStringify(obj) ==
  LET Keep(p) == p[2].t # "undefined" IN SelectSeq(obj, Keep)

-----------------------------------------------------------------------------
(* Result envelopes *)

TextPart(json) == [type |-> "text", text |-> json, data |-> "", mimeType |-> ""]
ImagePart(url) == [type |-> "image", text |-> <<>>, data |-> url,
                   mimeType |-> "image/jpeg"]

\* isError = FALSE stands for an envelope without the isError key
Envelope(content, isError) == [content |-> content, isError |-> isError]
NoEnvelope == Envelope(<<>>, FALSE)

Settled(how, value, reason) == [how |-> how, value |-> value, reason |-> reason]
Pending == Settled("pending", NoEnvelope, NoFault)
Fulfilled(envelope) == Settled("fulfilled", envelope, NoFault)
Rejected(fault) == Settled("rejected", NoEnvelope, fault)

\* no catch block: the fault leaves the handler
Rethrow(error) == Rejected(error)

\* the catch block
Catch(error) ==
  LET errorMessage == IF error.isError THEN error.message
                      ELSE "Unknown error occurred"
  IN Fulfilled(Envelope(
       << TextPart(JSONStringify(<< <<"success", Bool(FALSE)>>,
                                    <<"error", Text(errorMessage)>> >>)) >>,
       TRUE))

-----------------------------------------------------------------------------
(* call_tool: arguments and local bindings *)

ArgNames == {"prompt", "width", "height", "seed", "model", "nologo", "enhance",
             "temperature", "max_tokens", "system"}

\* the object {}: every property reads as undefined
EmptyObject == [k \in ArgNames |-> Undef]

\* request.params
Params(name, hasArguments, arguments) ==
  [name |-> name, hasArguments |-> hasArguments, arguments |-> arguments]
NoParams == Params("", FALSE, EmptyObject)

\* (args || {})
ArgsOrEmpty(params) ==
  IF params.hasArguments THEN params.arguments ELSE EmptyObject

Locals(prompt, width, height, seed, model, nologo, enhance, temperature, max_tokens, system, imageUrl) ==
  [prompt |-> prompt, width |-> width, height |-> height, seed |-> seed,
   model |-> model, nologo |-> nologo, enhance |-> enhance,
   temperature |-> temperature, max_tokens |-> max_tokens, system |-> system,
   imageUrl |-> imageUrl]
NoLocals == Locals(Undef, Undef, Undef, Undef, Undef, Undef, Undef, Undef,
                   Undef, Undef, "")

\* the destructuring of imageArgs with its defaults
ImageLocals(args) ==
  Locals(args["prompt"],
         Default(args["width"], Num(DefaultWidth)),
         Default(args["height"], Num(DefaultHeight)),
         args["seed"],
         Default(args["model"], Text("flux")),
         Default(args["nologo"], Bool(TRUE)),
         Default(args["enhance"], Bool(FALSE)),
         Undef, Undef, Undef, "")

\* the destructuring of textArgs with its defaults
TextLocals(args) ==
  Locals(args["prompt"], Undef, Undef,
         args["seed"],
         Default(args["model"], Text("openai")),
         Undef, Undef,
         Default(args["temperature"], Dec(0, DefaultTemperatureTenths)),
         args["max_tokens"],
         args["system"], "")

-----------------------------------------------------------------------------
(* Outbound requests *)

Request(method, url, headers, body) ==
  [method |-> method, url |-> url, headers |-> headers, body |-> body]

\* new URLSearchParams({...}) followed by the conditional append of seed; the
\* property values are evaluated in order, so the first toString() that
\* throws decides the fault
ImageSearchParams(l) ==
  LET w == MethodToString(l.width)
      h == MethodToString(l.height)
      n == MethodToString(l.nologo)
      e == MethodToString(l.enhance)
      sd == MethodToString(l.seed)
  IN IF w.threw THEN Throws(w.fault)
     ELSE IF h.threw THEN Throws(h.fault)
     ELSE IF n.threw THEN Throws(n.fault)
     ELSE IF e.threw THEN Throws(e.fault)
     ELSE LET params == << <<"width", w.value>>, <<"height", h.value>>,
                           <<"model", ToStringSegs(l.model)>>,
                           <<"nologo", n.value>>, <<"enhance", e.value>> >>
          IN IF IsDefined(l.seed)
             THEN IF sd.threw THEN Throws(sd.fault)
                  ELSE Returns(Append(params, <<"seed", sd.value>>))
             ELSE Returns(params)

\* case "generate_image", up to the await of fetch
ImageStart(args) ==
  LET l == ImageLocals(args)
      encodedPrompt == encodeURIComponent(l.prompt)
      params == ImageSearchParams(l)
      imageUrl == POLLINATIONS_IMAGE_API \o "/" \o encodedPrompt.value \o "?"
                  \o URLSearchParamsToString(params.value)
  IN IF Falsy(l.prompt) THEN Throws(NewError("Prompt is required"))
     ELSE IF encodedPrompt.threw THEN Throws(encodedPrompt.fault)
     ELSE IF params.threw THEN Throws(params.fault)
     ELSE Returns([locals |-> [l EXCEPT !.imageUrl = imageUrl],
                   fetch |-> Request("HEAD", imageUrl, <<>>, <<>>)])

\* the requestBody object of case "generate_text"
TextRequestBody(l) ==
  << <<"messages",
       Arr((IF Falsy(l.system) THEN <<>> ELSE << <<"system", l.system>> >>)
           \o << <<"user", l.prompt>> >>)>>,
     <<"model", l.model>>,
     <<"temperature", l.temperature>> >>
  \o (IF IsDefined(l.seed) THEN << <<"seed", l.seed>> >> ELSE <<>>)
  \o (IF IsDefined(l.max_tokens) THEN << <<"max_tokens", l.max_tokens>> >>
      ELSE <<>>)

\* case "generate_text", up to the await of fetch
TextStart(args) ==
  LET l == TextLocals(args)
  IN IF Falsy(l.prompt) THEN Throws(NewError("Prompt is required"))
     ELSE Returns([locals |-> l,
                   fetch |-> Request("POST", POLLINATIONS_TEXT_API,
                                     << <<"Content-Type", "application/json">> >>,
                                     JSONStringify(TextRequestBody(l)))])

-----------------------------------------------------------------------------
(* Remote outcomes *)

\* a check of the lower bound only
OkLowerBoundOnly(status) == status >= 200

\* response.ok
Ok(status) == status >= 200 /\ status <= 299

Remote(stage, status, statusText, body, fault) ==
  [stage |-> stage, status |-> status, statusText |-> statusText,
   body |-> body, fault |-> fault]
\* stages: "none" (nothing yet), "rejected" (fetch threw), "headers" (fetch
\* resolved with a status), "body" (response.text() resolved), "bodyFailed"
\* (response.text() threw)
NoRemote == Remote("none", 0, "", "", NoFault)

-----------------------------------------------------------------------------
(* Success payloads *)

\* the return statement of case "generate_image"
ImageSuccess(l) ==
  Envelope(
    << TextPart(JSONStringify(
         << <<"success", Bool(TRUE)>>,
            <<"imageUrl", Text(l.imageUrl)>>,
            <<"prompt", l.prompt>>,
            <<"width", l.width>>,
            <<"height", l.height>>,
            <<"model", l.model>>,
            <<"seed", l.seed>>,
            <<"message", Text("Image generated successfully! Use the imageUrl to display or download the image.")>> >>)),
       ImagePart(l.imageUrl) >>,
    FALSE)

\* the return statement of case "generate_text"
TextSuccess(l, text) ==
  Envelope(
    << TextPart(JSONStringify(
         << <<"success", Bool(TRUE)>>,
            <<"response", Text(text)>>,
            <<"model", l.model>>,
            <<"prompt", l.prompt>>,
            <<"seed", l.seed>>,
            <<"temperature", l.temperature>> >>)) >>,
    FALSE)

ModelEntry(name, description) ==
  Arr(<< <<"name", Text(name)>>, <<"description", Text(description)>> >>)

\* the `models` object of case "get_available_models"
AvailableModels ==
  << <<"image_models",
       Arr(<< <<"0", ModelEntry("flux", "High-quality general purpose image generation")>>,
              <<"1", ModelEntry("flux-realism", "Photorealistic image generation")>>,
              <<"2", ModelEntry("flux-anime", "Anime and manga style images")>>,
              <<"3", ModelEntry("flux-3d", "3D rendered style images")>>,
              <<"4", ModelEntry("turbo", "Fast image generation with good quality")>> >>)>>,
     <<"text_models",
       Arr(<< <<"0", ModelEntry("openai", "OpenAI GPT models (default)")>>,
              <<"1", ModelEntry("mistral", "Mistral AI model")>>,
              <<"2", ModelEntry("mistral-large", "Mistral Large model for complex tasks")>>,
              <<"3", ModelEntry("claude-3.5-sonnet", "Anthropic Claude 3.5 Sonnet")>>,
              <<"4", ModelEntry("llama-3.3-70b", "Meta Llama 3.3 70B")>>,
              <<"5", ModelEntry("qwen-2.5-coder-32b", "Qwen 2.5 Coder 32B - specialized for coding")>>,
              <<"6", ModelEntry("searchgpt", "Search-augmented generation model")>> >>)>> >>

\* the return statement of case "get_available_models"
ModelsSuccess == Envelope(<<TextPart(JSONStringify(AvailableModels))>>, FALSE)

-----------------------------------------------------------------------------
(* The call_tool handler, one operator per stretch between awaits *)

\* where the handler stands after a stretch of synchronous code
Step(at, l, issued, settled) ==
  [pc |-> at, locals |-> l, issued |-> issued, outcome |-> settled]

\* fetch(...) attempted twice
IssueTwice(req) == <<req, req>>

\* fetch(...): the request goes out
Issue(req) == <<req>>

\* from the entry of the handler to its first await, or to its return
Start(params) ==
  LET name == params.name
      args == ArgsOrEmpty(params)
      image == ImageStart(args)
      text == TextStart(args)
  IN CASE name = "generate_image" ->
            IF image.threw THEN Step("resolved", NoLocals, <<>>, Catch(image.fault))
            ELSE Step("awaitFetch", image.value.locals, Issue(image.value.fetch), Pending)
       [] name = "generate_text" ->
            IF text.threw THEN Step("resolved", NoLocals, <<>>, Catch(text.fault))
            ELSE Step("awaitFetch", text.value.locals, Issue(text.value.fetch), Pending)
       [] name = "get_available_models" ->
            Step("resolved", NoLocals, <<>>, Fulfilled(ModelsSuccess))
       [] OTHER ->
            Step("resolved", NoLocals, <<>>, Catch(NewError("Unknown tool: " \o name)))

\* after `await fetch(...)` resolved with a response
AfterFetch(name, l, status, statusText) ==
  IF name = "generate_image"
  THEN IF ~Ok(status)
       THEN Step("resolved", l, <<>>,
                 Catch(NewError("Failed to generate image: " \o statusText)))
       ELSE Step("resolved", l, <<>>, Fulfilled(ImageSuccess(l)))
  ELSE IF ~Ok(status)
       THEN Step("resolved", l, <<>>,
                 Catch(NewError("Failed to generate text: " \o statusText)))
       ELSE Step("awaitText", l, <<>>, Pending)

\* after `await response.text()` resolved
AfterText(l, text) == Step("resolved", l, <<>>, Fulfilled(TextSuccess(l, text)))

\* after either await threw
AfterThrow(l, error) == Step("resolved", l, <<>>, Catch(error))

\* bindings hoisted to module scope: every continuation reads the same ones
SharedLocals(frames, i) == frames[CHOOSE j \in DOMAIN frames : \A k \in DOMAIN frames : j <= k]

\* the bindings the continuation of invocation i closes over
LocalsOf(frames, i) == frames[i]

-----------------------------------------------------------------------------
(* Inputs *)

Object(prompt, width, height, seed, model, nologo, enhance, temperature, max_tokens, system) ==
  [k \in ArgNames |->
     CASE k = "prompt" -> prompt [] k = "width" -> width
       [] k = "height" -> height [] k = "seed" -> seed [] k = "model" -> model
       [] k = "nologo" -> nologo [] k = "enhance" -> enhance
       [] k = "temperature" -> temperature [] k = "max_tokens" -> max_tokens
       [] k = "system" -> system]

PromptValues == {Undef, Str(<<>>), Str(<<"a", " ", "cat">>), Str(<<LoneSurrogate>>)}
WidthValues == {Undef, Num(0), Num(512), Null}
HeightValues == {Undef, Num(768)}
SeedValues == {Undef, Num(0), Num(42), Null}
ImageModelValues == {Undef, Text("turbo"), Str(<<"my", " ", "model">>)}
NologoValues == {Undef, Bool(FALSE)}
EnhanceValues == {Undef, Bool(TRUE), Bool(FALSE)}
TextModelValues == {Undef, Text("mistral"), Text("gpt-5")}
TextSeedValues == {Undef, Num(0)}
TemperatureValues == {Undef, Num(0), Dec(1, 5), Dec(2, 5)}
MaxTokensValues == {Undef, Num(0), Num(100)}
SystemValues == {Undef, Str(<<>>), Str(<<"be", " ", "brief">>)}

ImageObjects ==
  {Object(p, w, h, sd, m, n, e, Undef, Undef, Undef) :
     p \in PromptValues, w \in WidthValues, h \in HeightValues,
     sd \in SeedValues, m \in ImageModelValues, n \in NologoValues,
     e \in EnhanceValues}

TextObjects ==
  {Object(p, Undef, Undef, sd, m, Undef, Undef, t, mt, sy) :
     p \in PromptValues, sd \in TextSeedValues, m \in TextModelValues,
     t \in TemperatureValues, mt \in MaxTokensValues, sy \in SystemValues}

PromptOnly(segs) ==
  Object(Str(segs), Undef, Undef, Undef, Undef, Undef, Undef, Undef, Undef, Undef)

\* the call_tool requests of Spec
AllParams ==
  {Params("generate_image", TRUE, o) : o \in ImageObjects}
  \cup {Params("generate_text", TRUE, o) : o \in TextObjects}
  \cup {Params(n, FALSE, EmptyObject) :
          n \in {"generate_image", "generate_text", "get_available_models"}}
  \cup {Params("get_available_models", TRUE, EmptyObject),
        Params("unknown_op", TRUE, PromptOnly(<<"x">>)),
        Params("", TRUE, EmptyObject)}

\* the call_tool requests of SpecConc
ConcParams ==
  {Params("generate_image", TRUE,
          Object(Str(<<p>>), Undef, Undef, sd, Undef, Undef, Undef, Undef, Undef, Undef)) :
     p \in {"cat", "dog"}, sd \in {Undef, Num(7)}}
  \cup {Params("generate_text", TRUE, PromptOnly(<<p>>)) : p \in {"hello", "bye"}}
  \cup {Params("get_available_models", TRUE, EmptyObject),
        Params("unknown_op", TRUE, PromptOnly(<<"x">>))}

\* status line of a response
Statuses == {<<200, "OK">>, <<404, "Not Found">>, <<503, "">>}
Bodies == {"hi there", ""}
\* values a rejected await can throw: an Error with or without a message, a
\* value that is no Error with or without a description
ThrownValues == {NewError("request to https://text.pollinations.ai/ failed, reason: read ECONNRESET"),
                 NewError(""), Fault(FALSE, "socket hang up"), Fault(FALSE, "")}

\* the remote outcomes of SpecConc
ConcStatuses == {<<200, "OK">>, <<404, "Not Found">>}
ConcBodies == {"hi there", "goodbye"}
ConcThrown == {NewError("socket hang up")}

-----------------------------------------------------------------------------
(* Actions *)

InitSlots(slots) ==
  /\ tools = ToolsLiteral
  /\ listed = <<>>
  /\ pc = [i \in slots |-> "idle"]
  /\ request = [i \in slots |-> NoParams]
  /\ locals = [i \in slots |-> NoLocals]
  /\ sent = [i \in slots |-> <<>>]
  /\ remote = [i \in slots |-> NoRemote]
  /\ outcome = [i \in slots |-> Pending]

\* the handler of `step` moves invocation i
Advance(i, step) ==
  /\ pc' = [pc EXCEPT ![i] = step.pc]
  /\ sent' = [sent EXCEPT ![i] = sent[i] \o step.issued]
  /\ outcome' = [outcome EXCEPT ![i] = step.outcome]

\* list_tools request
ListTools ==
  /\ listed' = ListToolsResult(tools)
  /\ UNCHANGED <<tools, pc, request, locals, sent, remote, outcome>>

\* call_tool request: the handler runs to its first await or to its return
CallTool(i, params) ==
  /\ pc[i] = "idle"
  /\ request' = [request EXCEPT ![i] = params]
  /\ locals' = [locals EXCEPT ![i] = Start(params).locals]
  /\ Advance(i, Start(params))
  /\ UNCHANGED <<tools, listed, remote>>

\* the remote answers the request of invocation i with a status line
FetchResolves(i, status, statusText) ==
  /\ pc[i] = "awaitFetch"
  /\ remote' = [remote EXCEPT ![i] = Remote("headers", status, statusText, "", NoFault)]
  /\ Advance(i, AfterFetch(request[i].name, LocalsOf(locals, i), status, statusText))
  /\ UNCHANGED <<tools, listed, request, locals>>

\* fetch of invocation i throws
FetchRejects(i, error) ==
  /\ pc[i] = "awaitFetch"
  /\ remote' = [remote EXCEPT ![i] = Remote("rejected", 0, "", "", error)]
  /\ Advance(i, AfterThrow(LocalsOf(locals, i), error))
  /\ UNCHANGED <<tools, listed, request, locals>>

\* response.text() of invocation i resolves
TextResolves(i, text) ==
  /\ pc[i] = "awaitText"
  /\ remote' = [remote EXCEPT ![i] = [remote[i] EXCEPT !.stage = "body", !.body = text]]
  /\ Advance(i, AfterText(LocalsOf(locals, i), text))
  /\ UNCHANGED <<tools, listed, request, locals>>

\* response.text() of invocation i throws
TextRejects(i, error) ==
  /\ pc[i] = "awaitText"
  /\ remote' = [remote EXCEPT ![i] = [remote[i] EXCEPT !.stage = "bodyFailed", !.fault = error]]
  /\ Advance(i, AfterThrow(LocalsOf(locals, i), error))
  /\ UNCHANGED <<tools, listed, request, locals>>

\* the transport sends the settled result; the invocation is over
Respond(i) ==
  /\ pc[i] = "resolved"
  /\ pc' = [pc EXCEPT ![i] = "idle"]
  /\ request' = [request EXCEPT ![i] = NoParams]
  /\ locals' = [locals EXCEPT ![i] = NoLocals]
  /\ sent' = [sent EXCEPT ![i] = <<>>]
  /\ remote' = [remote EXCEPT ![i] = NoRemote]
  /\ outcome' = [outcome EXCEPT ![i] = Pending]
  /\ UNCHANGED <<tools, listed>>

Slots == DOMAIN pc

Network(i, statuses, bodies, thrown) ==
  \/ \E st \in statuses : FetchResolves(i, st[1], st[2])
  \/ \E e \in thrown : FetchRejects(i, e)
  \/ \E b \in bodies : TextResolves(i, b)
  \/ \E e \in thrown : TextRejects(i, e)

\* one invocation at a time, every argument combination
Init == InitSlots({1})

Next ==
  \/ ListTools
  \/ \E i \in Slots : \E p \in AllParams : CallTool(i, p)
  \/ \E i \in Slots : Network(i, Statuses, Bodies, ThrownValues)
  \/ \E i \in Slots : Respond(i)

Spec == Init /\ [][Next]_vars

\* up to MaxInFlight invocations in flight, their awaits settling in any order
InitConc == InitSlots(1..MaxInFlight)

NextConc ==
  \/ ListTools
  \/ \E i \in Slots : \E p \in ConcParams : CallTool(i, p)
  \/ \E i \in Slots : Network(i, ConcStatuses, ConcBodies, ConcThrown)
  \/ \E i \in Slots : Respond(i)

SpecConc == InitConc /\ [][NextConc]_vars

-----------------------------------------------------------------------------
(* Vocabulary of the properties *)

\* the value invocation i supplied for argument k (Undef when it supplied none)
Supplied(i, k) ==
  IF request[i].hasArguments THEN request[i].arguments[k] ELSE Undef

Missing(i, k) == Supplied(i, k) = Undef

Resolved(i) == pc[i] = "resolved"

IsGenerate(i) == request[i].name \in {"generate_image", "generate_text"}

\* the prompt is absent or the empty string
PromptAbsentOrEmpty(i) == Supplied(i, "prompt") \in {Undef, Str(<<>>)}

\* the prompt is a string of at least one character
PromptNonEmpty(i) ==
  Supplied(i, "prompt").t = "string" /\ Supplied(i, "prompt").s # <<>>

\* the value of key k in a JSON text (Undef when the key is absent)
Field(json, k) ==
  IF \E j \in 1..Len(json) : json[j][1] = k
  THEN json[CHOOSE j \in 1..Len(json) : json[j][1] = k][2]
  ELSE Undef

HasField(json, k) == \E j \in 1..Len(json) : json[j][1] = k

IsSuccess(e) ==
  /\ ~e.isError
  /\ Len(e.content) >= 1
  /\ \A j \in 1..Len(e.content) : e.content[j].type \in {"text", "image"}

IsFailure(e) ==
  /\ e.isError
  /\ Len(e.content) = 1
  /\ e.content[1].type = "text"
  /\ Len(e.content[1].text) = 2
  /\ e.content[1].text[1] = <<"success", Bool(FALSE)>>
  /\ e.content[1].text[2][1] = "error"
  /\ e.content[1].text[2][2].t = "string"
  /\ Len(e.content[1].text[2][2].s) = 1

\* the message of a Failure
ErrorOf(e) == e.content[1].text[2][2].s[1]

FailsWith(i, message) ==
  /\ outcome[i].how = "fulfilled"
  /\ IsFailure(outcome[i].value)
  /\ ErrorOf(outcome[i].value) = message

Succeeds(i) == outcome[i].how = "fulfilled" /\ IsSuccess(outcome[i].value)

Fails(i) == outcome[i].how = "fulfilled" /\ IsFailure(outcome[i].value)

\* the JSON text of the first content part of invocation i's result
Payload(i) == outcome[i].value.content[1].text

SuccessStatus(i) == remote[i].status \in 200..299

-----------------------------------------------------------------------------
(* C1 *)

\* C1: every invocation that has resolved returned an envelope, never a raw
\* fault: the handler's promise is fulfilled, and its value is either a
\* Success (at least one content part, no isError) or a Failure (isError, one
\* text part whose JSON is {success: false, error: <message>}); while the
\* invocation is still running nothing has been returned.
C1_WellFormedEnvelope ==
  \A i \in Slots :
    /\ Resolved(i) => Succeeds(i) \/ Fails(i)
    /\ ~Resolved(i) => outcome[i].how = "pending"

\* a network fault that is not even an Error was turned into a Failure
C1_Witness ==
  \E i \in Slots :
    /\ Resolved(i)
    /\ remote[i].stage = "rejected"
    /\ ~remote[i].fault.isError
    /\ Fails(i)

-----------------------------------------------------------------------------
(* C2 *)

\* C2: an invocation of an unknown operation name resolves to a Failure with
\* message "Unknown tool: <name>", an invocation of generate_image or
\* generate_text whose prompt is absent or empty resolves to a Failure with
\* message "Prompt is required", and in both cases the invocation issued no
\* outbound request.
C2_ValidationBeforeNetwork ==
  \A i \in Slots :
    Resolved(i) =>
      /\ request[i].name \notin {"generate_image", "generate_text", "get_available_models"}
           => FailsWith(i, "Unknown tool: " \o request[i].name) /\ sent[i] = <<>>
      /\ IsGenerate(i) /\ PromptAbsentOrEmpty(i)
           => FailsWith(i, "Prompt is required") /\ sent[i] = <<>>

\* generate_text with the empty string as prompt (and other arguments
\* supplied) was refused
C2_Witness ==
  \E i \in Slots :
    /\ Resolved(i)
    /\ request[i].name = "generate_text"
    /\ Supplied(i, "prompt") = Str(<<>>)
    /\ Supplied(i, "model") = Text("mistral")
    /\ FailsWith(i, "Prompt is required")

-----------------------------------------------------------------------------
(* C3 *)

\* building the request of a generate_image invocation raises a fault: the
\* prompt holds an unpaired surrogate, or an argument that is stringified is
\* null
ImageBuildFaults(i) ==
  \/ \E j \in 1..Len(Supplied(i, "prompt").s) : Supplied(i, "prompt").s[j] = LoneSurrogate
  \/ \E k \in {"width", "height", "nologo", "enhance", "seed"} : Supplied(i, k) = Null

\* invocation i gets as far as its outbound call
ReachesRemote(i) ==
  /\ IsGenerate(i)
  /\ PromptNonEmpty(i)
  /\ request[i].name = "generate_image" => ~ImageBuildFaults(i)

\* C3 as stated: a resolved generate_image or generate_text invocation issued
\* exactly one outbound request, a resolved get_available_models none.
C3_ExactlyOneCall ==
  \A i \in Slots :
    Resolved(i) =>
      /\ IsGenerate(i) => Len(sent[i]) = 1
      /\ request[i].name = "get_available_models" => Len(sent[i]) = 0

\* C3 amended: an invocation never issues more than one outbound request (no
\* retry); a resolved generate_image or generate_text invocation issued
\* exactly one if its prompt is non-empty and building the request raised no
\* fault, and none otherwise; get_available_models and unknown operation
\* names issue none; an invocation that awaits the remote has issued one.
C3_AtMostOneCall ==
  \A i \in Slots :
    /\ Len(sent[i]) <= 1
    /\ Resolved(i) => Len(sent[i]) = (IF ReachesRemote(i) THEN 1 ELSE 0)
    /\ pc[i] \in {"awaitFetch", "awaitText"} => Len(sent[i]) = 1

\* a call that failed with a non-success status was not tried again
C3_Witness ==
  \E i \in Slots :
    /\ Resolved(i)
    /\ request[i].name = "generate_image"
    /\ remote[i].stage = "headers"
    /\ ~SuccessStatus(i)
    /\ Fails(i)
    /\ Len(sent[i]) = 1

-----------------------------------------------------------------------------
(* C4 *)

\* the remote answered invocation i's request with a status line
RemoteResponded(i) == remote[i].stage \in {"headers", "body", "bodyFailed"}

FailurePrefix(i) ==
  IF request[i].name = "generate_image" THEN "Failed to generate image: "
  ELSE "Failed to generate text: "

\* the Success of a generate_image: a text part and an image part
ImageSucceeds(i) ==
  /\ Succeeds(i)
  /\ Len(outcome[i].value.content) = 2
  /\ outcome[i].value.content[1].type = "text"
  /\ outcome[i].value.content[2].type = "image"

\* the Success of a generate_text: one text part carrying the body as read
TextSucceeds(i) ==
  /\ Succeeds(i)
  /\ Len(outcome[i].value.content) = 1
  /\ outcome[i].value.content[1].type = "text"
  /\ remote[i].stage = "body"
  /\ Field(Payload(i), "response") = Text(remote[i].body)

\* C4 as stated: once the remote answered a generate_image or generate_text
\* invocation with a status, the result is the Failure "Failed to generate
\* image|text: <status text>" for a non-success status and a Success for a
\* success status.
C4_StatusDecidesOutcome ==
  \A i \in Slots :
    Resolved(i) /\ IsGenerate(i) /\ PromptNonEmpty(i) /\ RemoteResponded(i) =>
      IF SuccessStatus(i)
      THEN IF request[i].name = "generate_image" THEN ImageSucceeds(i)
           ELSE TextSucceeds(i)
      ELSE FailsWith(i, FailurePrefix(i) \o remote[i].statusText)

\* C4 amended: as stated, except that a generate_text invocation answered
\* with a success status is a Success carrying the raw body only if the body
\* was read; if reading the body raises a fault the result is a Failure.  A
\* Success is never returned for a non-success status.
C4_StatusAndBodyDecideOutcome ==
  \A i \in Slots :
    Resolved(i) /\ IsGenerate(i) /\ PromptNonEmpty(i) /\ RemoteResponded(i) =>
      IF SuccessStatus(i)
      THEN IF request[i].name = "generate_image" THEN ImageSucceeds(i)
           ELSE IF remote[i].stage = "bodyFailed" THEN Fails(i)
           ELSE TextSucceeds(i)
      ELSE FailsWith(i, FailurePrefix(i) \o remote[i].statusText)

\* a generate_text invocation was answered 404 and failed with the status
\* text
C4_Witness ==
  \E i \in Slots :
    /\ Resolved(i)
    /\ request[i].name = "generate_text"
    /\ remote[i].stage = "headers"
    /\ remote[i].status = 404
    /\ FailsWith(i, "Failed to generate text: Not Found")

-----------------------------------------------------------------------------
(* C5, C9, C10: what the outbound request carries *)

\* the query-string form of the argument values of Spec
Shown(v) ==
  CASE v = Num(0) -> "0" [] v = Num(42) -> "42" [] v = Num(512) -> "512"
    [] v = Num(768) -> "768" [] v = Bool(TRUE) -> "true"
    [] v = Bool(FALSE) -> "false" [] v = Text("turbo") -> "turbo"
    [] v = Str(<<"my", " ", "model">>) -> "my+model"
    [] OTHER -> "?"

\* the path form of the prompts of Spec
ShownPrompt(v) ==
  CASE v = Str(<<"a", " ", "cat">>) -> "a%20cat" [] OTHER -> "?"

ImageUrl(prompt, width, height, model, nologo, enhance, seedPart) ==
  "https://image.pollinations.ai/prompt/" \o prompt \o "?width=" \o width
  \o "&height=" \o height \o "&model=" \o model \o "&nologo=" \o nologo
  \o "&enhance=" \o enhance \o seedPart

SeedParts == {"", "&seed=0", "&seed=42"}

\* the value of argument k if supplied, else its declared default
OrDefault(i, k, d) == IF Missing(i, k) THEN d ELSE Supplied(i, k)
ShownOrDefault(i, k, d) == IF Missing(i, k) THEN d ELSE Shown(Supplied(i, k))

Issued(i) == sent[i] # <<>>

\* C5: in every outbound request and every Success payload of generate_image
\* and generate_text, an optional argument that was not supplied has its
\* declared default (width 1024, height 1024, model flux, nologo true,
\* enhance false; model openai, temperature 0.7) and one that was supplied,
\* false and 0 included, has the supplied value.  The image payload carries
\* nologo and enhance inside imageUrl, which is the URL that was requested.
C5_DefaultsOnlyWhenMissing ==
  \A i \in Slots :
    /\ Issued(i) /\ request[i].name = "generate_image" =>
         /\ \E sp \in SeedParts :
              sent[i][1].url =
                ImageUrl(ShownPrompt(Supplied(i, "prompt")),
                         ShownOrDefault(i, "width", "1024"),
                         ShownOrDefault(i, "height", "1024"),
                         ShownOrDefault(i, "model", "flux"),
                         ShownOrDefault(i, "nologo", "true"),
                         ShownOrDefault(i, "enhance", "false"), sp)
         /\ Resolved(i) /\ Succeeds(i) =>
              /\ Field(Payload(i), "imageUrl") = Text(sent[i][1].url)
              /\ Field(Payload(i), "width") = OrDefault(i, "width", Num(1024))
              /\ Field(Payload(i), "height") = OrDefault(i, "height", Num(1024))
              /\ Field(Payload(i), "model") = OrDefault(i, "model", Text("flux"))
    /\ Issued(i) /\ request[i].name = "generate_text" =>
         /\ Field(sent[i][1].body, "model") = OrDefault(i, "model", Text("openai"))
         /\ Field(sent[i][1].body, "temperature") = OrDefault(i, "temperature", Dec(0, 7))
         /\ Resolved(i) /\ Succeeds(i) =>
              /\ Field(Payload(i), "model") = OrDefault(i, "model", Text("openai"))
              /\ Field(Payload(i), "temperature") = OrDefault(i, "temperature", Dec(0, 7))

\* a generate_image invocation that supplied width 0 and nologo false and left
\* the other optional arguments out succeeded
C5_Witness ==
  \E i \in Slots :
    /\ Resolved(i) /\ Succeeds(i)
    /\ request[i].name = "generate_image"
    /\ Supplied(i, "width") = Num(0)
    /\ Supplied(i, "nologo") = Bool(FALSE)
    /\ Missing(i, "height") /\ Missing(i, "model") /\ Missing(i, "enhance")
    /\ sent[i][1].url =
         "https://image.pollinations.ai/prompt/a%20cat?width=0&height=1024&model=flux&nologo=false&enhance=false"

WidthsShown == {"0", "512", "1024"}
HeightsShown == {"768", "1024"}
ModelsShown == {"flux", "turbo", "my+model"}
BooleansShown == {"true", "false"}

\* C9: the URL of a generate_image request ends, after width, height, model,
\* nologo and enhance, with a seed parameter holding the supplied seed in
\* decimal if a seed was supplied (0 included) and has no seed parameter
\* otherwise; the JSON body of a generate_text request has a seed field
\* exactly if a seed was supplied and a max_tokens field exactly if max_tokens
\* was supplied, each holding the supplied value.
C9_SeedForwardedIffSupplied ==
  \A i \in Slots :
    /\ Issued(i) /\ request[i].name = "generate_image" =>
         \E w \in WidthsShown, h \in HeightsShown, m \in ModelsShown,
            n \in BooleansShown, e \in BooleansShown :
           sent[i][1].url =
             ImageUrl(ShownPrompt(Supplied(i, "prompt")), w, h, m, n, e,
                      IF Missing(i, "seed") THEN ""
                      ELSE "&seed=" \o Shown(Supplied(i, "seed")))
    /\ Issued(i) /\ request[i].name = "generate_text" =>
         /\ HasField(sent[i][1].body, "seed") <=> ~Missing(i, "seed")
         /\ Field(sent[i][1].body, "seed") = Supplied(i, "seed")
         /\ HasField(sent[i][1].body, "max_tokens") <=> ~Missing(i, "max_tokens")
         /\ Field(sent[i][1].body, "max_tokens") = Supplied(i, "max_tokens")

\* a generate_image request went out for an invocation that supplied seed 0
C9_Witness ==
  \E i \in Slots :
    /\ pc[i] = "awaitFetch"
    /\ request[i].name = "generate_image"
    /\ Supplied(i, "seed") = Num(0)
    /\ sent[i][1].url =
         "https://image.pollinations.ai/prompt/a%20cat?width=1024&height=1024&model=flux&nologo=true&enhance=false&seed=0"

ImageModelsAllowed == {"flux", "flux-realism", "flux-anime", "flux-3d", "turbo"}
TextModelsAllowed == {"openai", "mistral", "mistral-large", "claude-3.5-sonnet",
                      "llama-3.3-70b", "qwen-2.5-coder-32b", "searchgpt"}

WithinTemperatureRange(v) ==
  v.t = "number" /\ v.n >= 0 /\ (v.n < 2 \/ (v.n = 2 /\ v.f = 0))

\* C10 as stated: every generate_image request carries a model of the
\* image enum, every generate_text request a model of the text enum and a
\* temperature within [0, 2].
C10_RequestsWithinSchema ==
  \A i \in Slots :
    /\ Issued(i) /\ request[i].name = "generate_image" =>
         \E w \in WidthsShown, h \in HeightsShown, m \in ImageModelsAllowed,
            n \in BooleansShown, e \in BooleansShown, sp \in SeedParts :
           sent[i][1].url =
             ImageUrl(ShownPrompt(Supplied(i, "prompt")), w, h, m, n, e, sp)
    /\ Issued(i) /\ request[i].name = "generate_text" =>
         /\ Field(sent[i][1].body, "model") \in {Text(m) : m \in TextModelsAllowed}
         /\ WithinTemperatureRange(Field(sent[i][1].body, "temperature"))

-----------------------------------------------------------------------------
(* C6 *)

\* C6: the catalog never changes, and every list_tools response is the three
\* descriptors generate_image, generate_text, get_available_models in that
\* order with the schemas they were declared with.
C6_CatalogStable ==
  /\ tools = ToolsLiteral
  /\ listed # <<>> =>
       /\ Len(listed) = 3
       /\ <<listed[1].name, listed[2].name, listed[3].name>> =
            <<"generate_image", "generate_text", "get_available_models">>
       /\ listed = <<GenerateImageTool, GenerateTextTool, GetAvailableModelsTool>>

\* the catalog was listed and an invocation has failed
C6_Witness ==
  /\ listed # <<>>
  /\ \E i \in Slots : Resolved(i) /\ Fails(i) /\ Issued(i)

-----------------------------------------------------------------------------
(* C7 *)

\* what the handler computes for request.params p once the remote has done r
\* with its request
ExpectedOutcome(p, r) ==
  IF Start(p).pc = "resolved" THEN Start(p).outcome
  ELSE CASE r.stage = "none" -> Pending
         [] r.stage = "headers" ->
              AfterFetch(p.name, Start(p).locals, r.status, r.statusText).outcome
         [] r.stage = "body" -> AfterText(Start(p).locals, r.body).outcome
         [] OTHER -> AfterThrow(Start(p).locals, r.fault).outcome

\* C7: with several invocations in flight and their awaits settling in any
\* order, the request an invocation issued and the result it returns are
\* those computed from its own operation name, its own arguments and the
\* remote's answer to its own request; a Success carries the invocation's own
\* prompt, seed and model defaults, its own URL and its own response text.
C7_InvocationsIndependent ==
  \A i \in Slots :
    pc[i] # "idle" =>
      /\ sent[i] = Start(request[i]).issued
      /\ outcome[i] = ExpectedOutcome(request[i], remote[i])
      /\ Resolved(i) /\ Succeeds(i) /\ IsGenerate(i) =>
           /\ Field(Payload(i), "prompt") = Supplied(i, "prompt")
           /\ Field(Payload(i), "seed") = Supplied(i, "seed")
           /\ request[i].name = "generate_image" =>
                Field(Payload(i), "imageUrl") = Text(sent[i][1].url)
           /\ request[i].name = "generate_text" =>
                Field(Payload(i), "response") = Text(remote[i].body)

\* two different generate_image invocations overlap: the second has
\* succeeded while the first still awaits its fetch
C7_Witness ==
  /\ MaxInFlight >= 2
  /\ pc[1] = "awaitFetch"
  /\ request[1].name = "generate_image"
  /\ Supplied(1, "prompt") = Text("cat")
  /\ Resolved(2) /\ Succeeds(2)
  /\ request[2].name = "generate_image"
  /\ Supplied(2, "prompt") = Text("dog")
  /\ Supplied(2, "seed") = Num(7)

-----------------------------------------------------------------------------
(* C8 *)

\* C8 as stated: when an await of the invocation threw, the Failure message
\* is the description the thrown value carries, or "Unknown error occurred"
\* if it carries none, and so is never empty.
C8_FaultMessage ==
  \A i \in Slots :
    Resolved(i) /\ remote[i].stage \in {"rejected", "bodyFailed"} =>
      /\ FailsWith(i, IF remote[i].fault.message # "" THEN remote[i].fault.message
                      ELSE "Unknown error occurred")
      /\ ErrorOf(outcome[i].value) # ""

====
